---- MODULE Spec2Model ----
(***************************************************************************)
(* Model of the RAG front end: the results view (ResultsDisplay and its    *)
(* citation binder renderAnswerWithCitations), the search form              *)
(* (SearchInterface, in both versions the sources hold), the api wrapper   *)
(* queryRAG and the pages that host them (Home, Search), the upload queue  *)
(* (UploadManager), the Documents page with its chunk viewer               *)
(* (ChunksViewer), and the file searches (SimilaritySearch, ImageSearch).  *)
(*                                                                         *)
(* JavaScript values are modelled as follows.                              *)
(*  - a string that the code scans character by character (the answer) is *)
(*    a sequence of one-character strings; an opaque string is a TLA+      *)
(*    string;                                                              *)
(*  - a value that may be null/undefined is a sequence of length 0 (None)  *)
(*    or 1 (Some(v)); where the code tells undefined from null (the        *)
(*    optional fields of a citation), undefined is a field the record does *)
(*    not have and None is null;                                           *)
(*  - an object is a record; a field the object does not have is not in    *)
(*    the record's DOMAIN.                                                 *)
(***************************************************************************)
EXTENDS Integers, Sequences, FiniteSets, TLC

VARIABLES
    results,           \* Home/Search: useState(null), the prop of ResultsDisplay
    rendered,          \* what ResultsDisplay last rendered for `results`
    selectedCitation,  \* ResultsDisplay: useState(null)
    mounted,           \* which SearchInterface source is the mounted one
    query,             \* SearchInterface: the search box
    loading,           \* SearchInterface: useState(false)
    modalities,        \* SearchInterface: the three checkboxes
    selectedDocuments, \* Search: useState([])
    advancedFilters,   \* Search: useState(null)
    inflight,          \* the POST /query/ requests not yet answered
    issued,            \* number of POST /query/ requests sent so far
    delivered,         \* number of onResults calls so far
    alerts,            \* number of alert() dialogs shown so far
    searchMode,        \* Search: useState('text')
    filterChangedAt,   \* the value of `issued` at the last filter change (history)
    resultsFrom,       \* the id of the request whose response is in `results`,
                       \* 0 when there is none (history)
    \* UploadManager and its host page
    upHost,            \* the page that hosts UploadManager: "Home" or "Documents"
    upMounted,         \* whether UploadManager is mounted (the host's showUpload)
    files,             \* UploadManager: useState([])
    uploading,         \* UploadManager: useState(false)
    batches,           \* the handleUploadAll calls that have not returned yet
    posts,             \* every upload request sent so far, in order (history)
    completions,       \* the files onUploadComplete was called for, in order (history)
    nextId,            \* number of file objects created so far
    \* Documents page and the server's document store
    documents,         \* Documents: useState([]), the ids of the listed documents
    docLoading,        \* Documents: useState(true)
    filter,            \* Documents: useState('all')
    serverDocs,        \* the ids of the documents the server holds
    listings,          \* the getDocuments requests in flight
    listingsIssued,    \* number of getDocuments requests sent so far
    deletes,           \* the deleteDocument requests in flight
    deletesIssued,     \* number of deleteDocument requests sent so far
    lastPrompt,        \* the last confirm() dialog and the user's answer (history)
    docAlerts,         \* number of alert() dialogs the Documents page has shown
    listFailed,        \* whether some getDocuments request was rejected (history)
    shownFor,          \* the modality parameter of the request whose response
                       \* is in documents (history)
    \* One citation with its optional fields
    shown,             \* the citation object handed to the card and the panel
    card,              \* what the citation card of ResultsDisplay rendered for it
    panel,             \* what CitationPanel rendered for it, or that it is closed
    \* Documents page: the chunk viewer
    selectedDoc,       \* Documents: useState(null)
    docChunks,         \* Documents: useState([])
    showChunks,        \* Documents: useState(false)
    viewer,            \* what ChunksViewer last rendered
    chunkReqs,         \* the getDocumentChunks requests in flight
    chunksIssued,      \* number of getDocumentChunks requests sent so far
    chunkAlerts,       \* number of alert() dialogs of handleViewChunks so far
    \* SimilaritySearch and ImageSearch (the mounted one is given by searchMode)
    simFile,           \* useState(null): the selected file
    simPreview,        \* ImageSearch: useState(null)
    simLoading,        \* useState(false)
    simResults,        \* useState(null)
    simRequests,       \* the find-similar requests in flight
    simIssued,         \* number of find-similar requests sent so far
    simReaders,        \* the FileReaders of ImageSearch that have not finished
    simSelections,     \* number of files picked or dropped so far
    simMessages        \* the alert() dialogs of the two components, in order

queryVars == <<results, rendered, selectedCitation, mounted, query, loading,
               modalities, selectedDocuments, advancedFilters, inflight, issued,
               delivered, alerts, searchMode, filterChangedAt, resultsFrom>>

uploadVars == <<upHost, upMounted, files, uploading, batches, posts,
                completions, nextId>>

docsVars == <<documents, docLoading, filter, serverDocs, listings, listingsIssued,
              deletes, deletesIssued, lastPrompt, docAlerts, listFailed, shownFor>>
citeVars == <<shown, card, panel>>
chunkVars == <<selectedDoc, docChunks, showChunks, viewer, chunkReqs,
               chunksIssued, chunkAlerts>>
simVars == <<simFile, simPreview, simLoading, simResults, simRequests, simIssued,
             simReaders, simSelections, simMessages>>
\* The rendering of one citation, the chunk viewer and the file searches.
sideVars == <<citeVars, chunkVars, simVars>>

vars == <<queryVars, uploadVars, docsVars, sideVars>>
\* What the search form and the results view leave alone.
auxVars == <<uploadVars, docsVars, sideVars>>
\* What UploadManager leaves alone, a completed upload apart.
notUpload == <<queryVars, docsVars, sideVars>>

\* What the Documents page leaves alone.
notDocs == <<queryVars, uploadVars, sideVars>>

\* What the rendering of one citation leaves alone.
notCite == <<queryVars, uploadVars, docsVars, chunkVars, simVars>>

\* What the chunk viewer leaves alone.
notChunks == <<queryVars, uploadVars, docsVars, citeVars, simVars>>


----------------------------------------------------------------------------
(* Bounds of the model *)

MaxTokens == 3      \* an answer is made of at most this many tokens
MaxCitations == 2   \* a response lists at most this many citations
MaxRequests == 2    \* at most this many query requests are issued
MaxFiles == 3       \* at most this many files are ever queued for upload
MaxListings == 2    \* the filter buttons request listings up to this request number
MaxDeletes == 2     \* at most this many deletions are confirmed
MaxChunkRequests == 2  \* at most this many chunk requests are sent
MaxSelections == 3  \* at most this many files are picked for a file search
MaxFileSearches == 2  \* at most this many file searches are sent

----------------------------------------------------------------------------
(* null / undefined *)

None == <<>>
Some(v) == <<v>>
IsSome(m) == m # <<>>
Val(m) == m[1]

----------------------------------------------------------------------------
(* Responses of POST /query/ *)

CitationIds == {1, 2}
Sources == {"a.pdf", "b.png"}

\* The citations responses are built from; only the fields the binder reads
\* are kept. Two of them share an id, two share a source.
Citation ==
    {c \in [id : CitationIds, source : Sources] : c.id = 1 \/ c.source = "a.pdf"}

RECURSIVE SeqsUpTo(_, _)
SeqsUpTo(S, n) ==
    IF n = 0 THEN {<<>>}
    ELSE LET shorter == SeqsUpTo(S, n - 1)
         IN  shorter \cup {Append(s, x) : s \in shorter, x \in S}

\* The citations value of a response: a list, or no list at all.
CitationValues == {None} \cup {Some(l) : l \in SeqsUpTo(Citation, MaxCitations)}

\* Answer texts are concatenations of these pieces, so that markers with one
\* and several digits, with a leading zero, and broken markers all occur.
Tokens ==
    { <<"x">>, <<"[">>,
      <<"[", "1", "]">>, <<"[", "2", "]">>,
      <<"[", "0", "1", "]">>, <<"[", "1", "2", "]">> }

RECURSIVE Concats(_)
Concats(n) ==
    IF n = 0 THEN {<<>>}
    ELSE LET shorter == Concats(n - 1)
         IN  shorter \cup {s \o t : s \in shorter, t \in Tokens}

Answers == Concats(MaxTokens)

QueryData == [answer : Answers, citations : CitationValues]

----------------------------------------------------------------------------
(* renderAnswerWithCitations *)

Digits == {"0", "1", "2", "3", "4", "5", "6", "7", "8", "9"}

DigitVal(c) ==
    CASE c = "0" -> 0 [] c = "1" -> 1 [] c = "2" -> 2 [] c = "3" -> 3
      [] c = "4" -> 4 [] c = "5" -> 5 [] c = "6" -> 6 [] c = "7" -> 7
      [] c = "8" -> 8 [] c = "9" -> 9

DigitChar(d) ==
    CASE d = 0 -> "0" [] d = 1 -> "1" [] d = 2 -> "2" [] d = 3 -> "3"
      [] d = 4 -> "4" [] d = 5 -> "5" [] d = 6 -> "6" [] d = 7 -> "7"
      [] d = 8 -> "8" [] d = 9 -> "9"

\* text.substring(from, to), with JavaScript's 0-based positions.
substring(text, from, to) == SubSeq(text, from + 1, to)

\* parseInt(match[1]) for a string of decimal digits (base 10).
RECURSIVE parseInt(_)
parseInt(ds) ==
    IF ds = <<>> THEN 0
    ELSE parseInt(SubSeq(ds, 1, Len(ds) - 1)) * 10 + DigitVal(ds[Len(ds)])

\* The text JSX shows for the number in `[{citationNum}]`.
RECURSIVE NumberText(_)
NumberText(n) ==
    IF n < 10 THEN <<DigitChar(n)>>
    ELSE Append(NumberText(n \div 10), DigitChar(n % 10))

\* 0-based position just past the longest run of digits that starts at i.
RECURSIVE DigitRunEnd(_, _)
DigitRunEnd(text, i) ==
    IF i < Len(text) /\ text[i + 1] \in Digits
    THEN DigitRunEnd(text, i + 1)
    ELSE i

\* Whether /\[(\d+)\]/ matches at 0-based position i.
MatchesAt(text, i) ==
    /\ i < Len(text)
    /\ text[i + 1] = "["
    /\ LET e == DigitRunEnd(text, i + 1)
       IN  e > i + 1 /\ e < Len(text) /\ text[e + 1] = "]"

\* citationRegex.exec(text) with the regex's lastIndex at `from`: the
\* leftmost match at or after it, or null.
exec(text, from) ==
    LET starts == {i \in from .. Len(text) - 1 : MatchesAt(text, i)}
    IN  IF starts = {} THEN None
        ELSE LET i == CHOOSE s \in starts : \A t \in starts : s <= t
                 e == DigitRunEnd(text, i + 1)
             IN  Some([index |-> i,
                       length |-> e + 1 - i,
                       group |-> substring(text, i + 1, e)])

\* Mutant of find: the marker number used as a position in the list.
find_byPosition(citations, citationNum) ==
    IF citationNum \in 1 .. Len(citations)
    THEN Some(citations[citationNum])
    ELSE None

\* citations.find(c => c.id === citationNum): the first element with that
\* id, or undefined.
find(citations, citationNum) ==
    LET hits == {i \in 1 .. Len(citations) : citations[i].id = citationNum}
    IN  IF hits = {} THEN None
        ELSE Some(citations[CHOOSE i \in hits : \A j \in hits : i <= j])

\* <span key={`text-${lastIndex}`}>{text.substring(...)}</span>
TextPart(key, str) ==
    [kind |-> "text", key |-> key, text |-> str, citation |-> None, title |-> <<>>]

\* Mutant of LinkPart: the title does not depend on the citation.
LinkPart_sameTitle(citationNum, citation) ==
    [kind |-> "link",
     key |-> citationNum,
     text |-> <<"[">> \o NumberText(citationNum) \o <<"]">>,
     citation |-> citation,
     title |-> <<>>]

\* <button className="citation-link" onClick=... title=...>[{citationNum}]</button>
LinkPart(citationNum, citation) ==
    [kind |-> "link",
     key |-> citationNum,
     text |-> <<"[">> \o NumberText(citationNum) \o <<"]">>,
     citation |-> citation,
     title |-> IF IsSome(citation)
               THEN <<"View source: ", Val(citation).source>>
               ELSE <<>>]

\* The parts pushed before a match: the text before it, when there is some.
TextBefore(text, lastIndex, index) ==
    IF index > lastIndex
    THEN <<TextPart(lastIndex, substring(text, lastIndex, index))>>
    ELSE <<>>

\* Mutant of TextAfter: the text after the last marker is left out.
TextAfter_dropped(text, lastIndex) == <<>>

\* The parts pushed after the loop: the remaining text, when there is some.
TextAfter(text, lastIndex) ==
    IF lastIndex < Len(text)
    THEN <<TextPart(lastIndex, substring(text, lastIndex, Len(text)))>>
    ELSE <<>>

\* The while loop of renderAnswerWithCitations, from lastIndex on. The
\* result is the parts array, or a TypeError: `citations.find` is evaluated
\* for every match, and throws when citations is null or undefined.
RECURSIVE RenderLoop(_, _, _, _)
RenderLoop(text, citations, lastIndex, parts) ==
    LET match == exec(text, lastIndex)
    IN  IF match = None
        THEN [status |-> "ok", parts |-> parts \o TextAfter(text, lastIndex)]
        ELSE IF citations = None
        THEN [status |-> "TypeError", parts |-> <<>>]
        ELSE LET m == Val(match)
                 citationNum == parseInt(m.group)
                 citation == find(Val(citations), citationNum)
             IN  RenderLoop(text, citations, m.index + m.length,
                            parts \o TextBefore(text, lastIndex, m.index)
                                  \o <<LinkPart(citationNum, citation)>>)

renderAnswerWithCitations(text, citations) ==
    RenderLoop(text, citations, 0, <<>>)

\* Mutant of CitationCards: one card per distinct citation id.
CitationCards_byId(citations) ==
    IF IsSome(citations) /\ Len(Val(citations)) > 0
    THEN SelectSeq(Val(citations),
                   LAMBDA c : c = Val(find(Val(citations), c.id)))
    ELSE <<>>

\* The Sources section: one card per element of citations, when citations
\* is a non-empty list.
CitationCards(citations) ==
    IF IsSome(citations) /\ Len(Val(citations)) > 0
    THEN Val(citations)
    ELSE <<>>

\* What ResultsDisplay renders for its prop: nothing for null, else the
\* answer's parts and the Sources cards; a throw while rendering leaves no
\* view at all.
NotRendered == [status |-> "none", parts |-> <<>>, cards |-> <<>>]

ResultsDisplay(res) ==
    IF res = None THEN NotRendered
    ELSE LET r == renderAnswerWithCitations(Val(res).answer, Val(res).citations)
         IN  IF r.status = "ok"
             THEN [status |-> "ok", parts |-> r.parts,
                   cards |-> CitationCards(Val(res).citations)]
             ELSE [status |-> r.status, parts |-> <<>>, cards |-> <<>>]

----------------------------------------------------------------------------
(* api.js and SearchInterface *)

DefaultTopK == 5    \* queryRAG's default for topK
SubmitTopK == 5     \* the top_k handleSubmit asks for

ModalityKeys == <<"text", "image", "audio">>

\* A JavaScript value passed as `question`: a string or an object.
Str(s) == [type |-> "string", value |-> s]
Obj(o) == [type |-> "object", value |-> o]

\* api.js queryRAG(question, topK = 5, includeModalities = [...]): the body
\* of POST /query/. An omitted argument (None) takes its default.
queryRAG(question, topK, includeModalities) ==
    [question |-> question,
     top_k |-> IF topK = None THEN DefaultTopK ELSE Val(topK),
     include_modalities |-> IF includeModalities = None
                            THEN ModalityKeys
                            ELSE Val(includeModalities)]

\* What the search box may hold: strings over a space and a letter.
QueryTexts == { <<>>, <<" ">>, <<"q">>, <<" ", "q">> }

\* String.prototype.trim, on strings whose only white space is " ".
RECURSIVE trimStart(_)
trimStart(s) ==
    IF s # <<>> /\ Head(s) = " " THEN trimStart(Tail(s)) ELSE s

RECURSIVE trimEnd(_)
trimEnd(s) ==
    IF s # <<>> /\ s[Len(s)] = " " THEN trimEnd(SubSeq(s, 1, Len(s) - 1)) ELSE s

trim(s) == trimEnd(trimStart(s))

\* Object.keys(modalities).filter(m => modalities[m])
selectedModalities(mods) ==
    SelectSeq(ModalityKeys, LAMBDA m : mods[m])

\* The requestBody object the later handleSubmit builds.
requestBody(q, docs, filters) ==
    LET base == [question |-> q, top_k |-> SubmitTopK]
        withDocs == IF Len(docs) > 0
                    THEN [document_ids |-> docs] @@ base
                    ELSE base
    IN  IF IsSome(filters)
        THEN [filters |-> Val(filters)] @@ withDocs
        ELSE withDocs

\* The POST bodies the two versions of handleSubmit hand to axios.
EarlierRequest(q, mods) ==
    queryRAG(Str(q), Some(SubmitTopK), Some(selectedModalities(mods)))

LaterRequest(q, docs, filters) ==
    queryRAG(Obj(requestBody(q, docs, filters)), None, None)

\* Documents offered by DocumentFilter and values AdvancedFilters reports.
DocumentIds == {1, 2}
DocumentList == <<1, 2>>
EmptyFilters == [startDate |-> "", endDate |-> "", minSize |-> "", maxSize |-> ""]
FilterValues == {EmptyFilters, [EmptyFilters EXCEPT !.minSize = "10"]}

\* The responses the query flow is exercised with: a resolved marker, an
\* unresolved one, zero citations with and without a marker, and a response
\* without a citations list.
Responses ==
    { [answer |-> <<"x", "[", "1", "]">>,
       citations |-> Some(<<[id |-> 1, source |-> "a.pdf"]>>)],
      [answer |-> <<"[", "2", "]", "x">>,
       citations |-> Some(<<[id |-> 1, source |-> "a.pdf"]>>)],
      [answer |-> <<"x">>, citations |-> Some(<<>>)],
      [answer |-> <<"[", "1", "]">>, citations |-> Some(<<>>)],
      [answer |-> <<"[", "1", "]">>, citations |-> None] }

----------------------------------------------------------------------------
(* One citation with optional fields: the card and CitationPanel *)

CitationTypes == {"text", "image", "audio"}
Pages == {0, 3}
Times == {0, 15}          \* seconds, in tenths
Urls == {"/files/b.png"}

\* The values a field takes when the citation has it: null or a value.
Nullable(values) == {None} \cup {Some(v) : v \in values}

\* The records over the optional fields `keys` of a citation.
RECURSIVE WithFields(_, _)
WithFields(base, keys) ==
    IF keys = <<>> THEN {base}
    ELSE LET key == Head(keys)[1]
             values == Head(keys)[2]
             rest == WithFields(base, Tail(keys))
         IN  rest \cup {(key :> v) @@ r : v \in Nullable(values), r \in rest}

\* A citation: id, type and source, and any of page, start_time, end_time
\* and url, each absent, null or a value.
OptCitations ==
    UNION { WithFields([id |-> 1, type |-> t, source |-> "a.pdf"],
                       << <<"page", Pages>>, <<"start_time", Times>>,
                          <<"end_time", Times>>, <<"url", Urls>> >>)
            : t \in CitationTypes }

\* o[key] is neither undefined nor null.
Present(o, key) == key \in DOMAIN o /\ o[key] # None

\* Number.prototype.toFixed(1) of a number given in tenths.
toFixed(tenths) == NumberText(tenths \div 10) \o <<".", DigitChar(tenths % 10)>>

\* {citation.page && (<div>Page {citation.page}</div>)}: nothing for an
\* undefined or null page, the number itself for 0, the element otherwise.
PageMeta(c) ==
    IF ~Present(c, "page") THEN None
    ELSE IF Val(c.page) = 0 THEN Some(<<"0">>)
    ELSE Some(<<"P", "a", "g", "e", " ">> \o NumberText(Val(c.page)))

\* citation.start_time !== undefined
TimeGuard(c) == "start_time" \in DOMAIN c

\* citation.start_time.toFixed(1) and citation.end_time.toFixed(1) are
\* member calls on undefined or null when the field is not present.
TimeThrows(c) == ~Present(c, "start_time") \/ ~Present(c, "end_time")

\* {start.toFixed(1)}s - {end.toFixed(1)}s
TimeMeta(c) ==
    toFixed(Val(c.start_time)) \o <<"s", " ", "-", " ">>
        \o toFixed(Val(c.end_time)) \o <<"s">>

TypeError == [status |-> "TypeError"]

\* The citation card of ResultsDisplay's Sources section.
CitationCard(c) ==
    IF TimeGuard(c) /\ TimeThrows(c) THEN TypeError
    ELSE [status |-> "ok",
          page |-> PageMeta(c),
          time |-> IF TimeGuard(c) THEN Some(TimeMeta(c)) ELSE None]

Closed == [status |-> "closed"]

\* CitationPanel for a selected citation.
CitationPanel(c) ==
    IF TimeGuard(c) /\ TimeThrows(c) THEN TypeError
    ELSE [status |-> "ok",
          page |-> PageMeta(c),
          time |-> IF TimeGuard(c) THEN Some(TimeMeta(c)) ELSE None,
          preview |-> IF Present(c, "url") /\ Val(c.url) # "" /\ c.type = "image"
                      THEN c.url ELSE None]

\* A citation with the required fields only, its card rendered.
\* The chunk viewer is closed and no chunk request was sent.
ChunkInit ==
    /\ selectedDoc = None
    /\ docChunks = <<>>
    /\ showChunks = FALSE
    /\ viewer = [status |-> "closed"]
    /\ chunkReqs = {}
    /\ chunksIssued = 0
    /\ chunkAlerts = 0

\* SimilaritySearch or ImageSearch as mounted: no file, no results.
SimInit ==
    /\ simFile = None
    /\ simPreview = None
    /\ simLoading = FALSE
    /\ simResults = None
    /\ simRequests = {}
    /\ simIssued = 0
    /\ simReaders = {}
    /\ simSelections = [count |-> 0, last |-> None]
    /\ simMessages = [invalid |-> 0, error |-> 0]

CiteInit ==
    /\ shown = [id |-> 1, type |-> "text", source |-> "a.pdf"]
    /\ card = CitationCard(shown)
    /\ panel = Closed

\* ResultsDisplay renders the card of a citation of the response.
ShowCard(c) ==
    /\ shown' = c
    /\ card' = CitationCard(c)
    /\ panel' = Closed
    /\ UNCHANGED notCite

\* A click on the rendered card: setSelectedCitation(citation) mounts
\* CitationPanel.
OpenPanel ==
    /\ card.status = "ok"
    /\ panel = Closed
    /\ panel' = CitationPanel(shown)
    /\ UNCHANGED <<shown, card, notCite>>

\* The panel's onClose.
ClosePanel ==
    /\ panel.status = "ok"
    /\ panel' = Closed
    /\ UNCHANGED <<shown, card, notCite>>

CitationNext ==
    \/ \E c \in OptCitations : ShowCard(c)
    \/ OpenPanel
    \/ ClosePanel

----------------------------------------------------------------------------
(* Documents page: its requests and its state after mounting *)

Filters == {"all", "text", "image", "audio"}

\* The modality of the documents the server holds at the start.
DocModality(d) == IF d = 1 THEN "text" ELSE "image"

\* getDocuments(0, 100, filter === 'all' ? null : filter): the modality
\* parameter of the request, None when the request carries none.
getDocuments(f) == IF f = "all" THEN None ELSE Some(f)

\* GET /documents/ as the server answers it from the documents it holds.
Listing(docs, modality) ==
    {d \in docs : modality = None \/ DocModality(d) = Val(modality)}

\* fetchDocuments read with the filter `f` of its closure, up to its await.
fetchDocuments(f) ==
    /\ docLoading' = TRUE
    /\ listingsIssued' = listingsIssued + 1
    /\ listings' = listings \cup
           {[id |-> listingsIssued + 1, modality |-> getDocuments(f), resp |-> None]}

\* The Documents page after mounting: the effect has called fetchDocuments.
DocsInit ==
    /\ documents = {}
    /\ docLoading = TRUE
    /\ filter = "all"
    /\ serverDocs = DocumentIds
    /\ listings = {[id |-> 1, modality |-> getDocuments("all"), resp |-> None]}
    /\ listingsIssued = 1
    /\ deletes = {}
    /\ deletesIssued = 0
    /\ lastPrompt = None
    /\ docAlerts = 0
    /\ listFailed = FALSE
    /\ shownFor = None

----------------------------------------------------------------------------
(* State after construction *)

FormInit ==
    /\ query = <<>>
    /\ loading = FALSE
    /\ modalities = [m \in {"text", "image", "audio"} |-> TRUE]
    /\ selectedDocuments = <<>>
    /\ advancedFilters = None
    /\ inflight = {}
    /\ issued = 0
    /\ delivered = 0
    /\ alerts = 0
    /\ searchMode = "text"
    /\ filterChangedAt = 0
    /\ resultsFrom = 0

\* UploadManager not in use.
UploadOff ==
    /\ upHost = "Home"
    /\ upMounted = FALSE
    /\ files = <<>>
    /\ uploading = FALSE
    /\ batches = {}
    /\ posts = <<>>
    /\ completions = <<>>
    /\ nextId = 0

\* The page as mounted: no results yet. The earlier SearchInterface is used
\* as Home uses it (onResults only), the later one as Search uses it.
Init ==
    /\ mounted \in {"earlier", "later"}
    /\ results = None
    /\ rendered = NotRendered
    /\ selectedCitation = None
    /\ FormInit
    /\ UploadOff
    /\ DocsInit
    /\ CiteInit
    /\ ChunkInit
    /\ SimInit

\* ResultsDisplay handed one response, before its first render.
RenderInit ==
    /\ mounted = "later"
    /\ results \in {Some(d) : d \in QueryData}
    /\ rendered = NotRendered
    /\ selectedCitation = None
    /\ FormInit
    /\ UploadOff
    /\ DocsInit
    /\ CiteInit
    /\ ChunkInit
    /\ SimInit

formVars == <<mounted, query, loading, modalities, selectedDocuments,
              advancedFilters, inflight, issued, delivered, alerts, searchMode,
              filterChangedAt, resultsFrom>>

\* A throw during render unmounts the whole tree: nothing can be clicked.
Alive == rendered.status # "TypeError"

\* Whether the page shows SearchInterface and the results view: Home shows
\* them unless showUpload, Search in the text mode.
FormShown == IF mounted = "earlier" THEN ~upMounted ELSE searchMode = "text"

\* The form and the results view can be used.
Usable == Alive /\ FormShown

----------------------------------------------------------------------------
(* ResultsDisplay *)

\* First render of ResultsDisplay for the response it was handed.
Render ==
    /\ results # None
    /\ rendered.status = "none"
    /\ rendered' = ResultsDisplay(results)
    /\ UNCHANGED <<results, selectedCitation, formVars,
                   auxVars>>

\* onClick of the i-th part, a citation link: setSelectedCitation(citation)
\* with the citation the link was rendered with (possibly undefined).
ClickMarker(i) ==
    /\ rendered.status = "ok"
    /\ i \in 1 .. Len(rendered.parts)
    /\ rendered.parts[i].kind = "link"
    /\ selectedCitation' = rendered.parts[i].citation
    /\ UNCHANGED <<results, rendered, formVars,
                   auxVars>>

\* onClick of the j-th card of the Sources section.
ClickCard(j) ==
    /\ rendered.status = "ok"
    /\ j \in 1 .. Len(rendered.cards)
    /\ selectedCitation' = Some(rendered.cards[j])
    /\ UNCHANGED <<results, rendered, formVars,
                   auxVars>>

\* CitationPanel's onClose: setSelectedCitation(null).
onClose ==
    /\ rendered.status = "ok"
    /\ IsSome(selectedCitation)
    /\ selectedCitation' = None
    /\ UNCHANGED <<results, rendered, formVars,
                   auxVars>>

ViewNext ==
    \/ \E i \in 1 .. Len(rendered.parts) : ClickMarker(i)
    \/ \E j \in 1 .. Len(rendered.cards) : ClickCard(j)
    \/ onClose

RenderNext == Render \/ ViewNext

SpecRender == RenderInit /\ [][RenderNext]_vars

----------------------------------------------------------------------------
(* SearchInterface, DocumentFilter, AdvancedFilters and the pages *)

viewVars == <<results, rendered, selectedCitation, resultsFrom>>
filterVars == <<selectedDocuments, advancedFilters, filterChangedAt>>
netVars == <<inflight, issued, delivered, alerts>>

\* onChange of the search box; the input is disabled while loading.
onChange(q) ==
    /\ Usable
    /\ ~loading
    /\ query' = q
    /\ UNCHANGED <<viewVars, mounted, searchMode, loading, modalities,
                   filterVars, netVars, auxVars>>

\* SmartSuggestions (later version only): a chip sets the query; the chips
\* are not disabled while loading.
onSuggestionClick(q) ==
    /\ Usable
    /\ mounted = "later"
    /\ query' = q
    /\ UNCHANGED <<viewVars, mounted, searchMode, loading, modalities,
                   filterVars, netVars, auxVars>>

toggleModality(modality) ==
    /\ Usable
    /\ modalities' = [modalities EXCEPT ![modality] = ~modalities[modality]]
    /\ UNCHANGED <<viewVars, mounted, searchMode, query, loading, filterVars,
                   netVars, auxVars>>

\* A POST /query/ request in flight: whether the SearchInterface that sent
\* it is still mounted, and whether the server will never answer it.
Request(id, body) == [id |-> id, body |-> body, live |-> TRUE, hung |-> FALSE]

\* The part of handleSubmit both versions share, up to the await: nothing
\* happens for a blank query; the submit button is disabled while loading.
Submit(body) ==
    /\ Usable
    /\ ~loading
    /\ trim(query) # <<>>
    /\ issued < MaxRequests
    /\ loading' = TRUE
    /\ issued' = issued + 1
    /\ inflight' = inflight \cup {Request(issued + 1, body)}
    /\ UNCHANGED <<viewVars, mounted, searchMode, query, modalities,
                   filterVars, delivered, alerts, auxVars>>

\* handleSubmit of the earlier SearchInterface.
handleSubmitEarlier ==
    /\ mounted = "earlier"
    /\ Submit(EarlierRequest(query, modalities))

\* handleSubmit of the later SearchInterface.
handleSubmit ==
    /\ mounted = "later"
    /\ Submit(LaterRequest(query, selectedDocuments, advancedFilters))

\* The axios instance sets no timeout: a request the server does not answer
\* stays pending, and its await never settles.
ServerHangs(r) ==
    /\ r \in inflight
    /\ ~r.hung
    /\ inflight' = (inflight \ {r}) \cup {[r EXCEPT !.hung = TRUE]}
    /\ UNCHANGED <<viewVars, mounted, searchMode, query, loading, modalities,
                   filterVars, issued, delivered, alerts, auxVars>>

\* Mutant of handleResults: the new answer is shown over the citations of
\* the results already on display.
handleResults_keepsCitations(data) ==
    LET merged == IF results = None THEN data
                  ELSE [data EXCEPT !.citations = Val(results).citations]
    IN  /\ results' = Some(merged)
        /\ rendered' = IF FormShown THEN ResultsDisplay(Some(merged)) ELSE NotRendered
        /\ delivered' = delivered + 1

\* What onResults(data) does on Home and on Search: setResults(data); the
\* results view, where the page shows it, then renders the new prop.
handleResults(data) ==
    /\ results' = Some(data)
    /\ rendered' = IF FormShown THEN ResultsDisplay(Some(data)) ELSE NotRendered
    /\ delivered' = delivered + 1

\* The await in handleSubmit resolves with response.data = data; the
\* setLoading(false) of a SearchInterface that was unmounted does nothing.
QueryResolved(r, data) ==
    /\ Alive
    /\ r \in inflight
    /\ ~r.hung
    /\ inflight' = inflight \ {r}
    /\ handleResults(data)
    /\ resultsFrom' = r.id
    /\ loading' = IF r.live THEN FALSE ELSE loading
    /\ UNCHANGED <<selectedCitation, mounted, searchMode, query, modalities,
                   filterVars, issued, alerts, auxVars>>

\* Mutant of QueryRejected: the failure is reported and also handed to
\* onResults as an empty result.
QueryRejected_clearsResults(r) ==
    /\ Alive
    /\ r \in inflight
    /\ ~r.hung
    /\ inflight' = inflight \ {r}
    /\ alerts' = alerts + 1
    /\ loading' = IF r.live THEN FALSE ELSE loading
    /\ results' = None
    /\ rendered' = NotRendered
    /\ resultsFrom' = 0
    /\ UNCHANGED <<selectedCitation, mounted, searchMode, query, modalities,
                   filterVars, issued, delivered, auxVars>>

\* The await in handleSubmit rejects: console.error, alert, and finally.
QueryRejected(r) ==
    /\ Alive
    /\ r \in inflight
    /\ ~r.hung
    /\ inflight' = inflight \ {r}
    /\ alerts' = alerts + 1
    /\ loading' = IF r.live THEN FALSE ELSE loading
    /\ UNCHANGED <<viewVars, mounted, searchMode, query, modalities,
                   filterVars, issued, delivered, auxVars>>

\* Search.handleFilterChange(docIds): the selection changes and the results
\* are cleared, which unmounts ResultsDisplay and its selectedCitation.
handleFilterChange(docIds) ==
    /\ Usable
    /\ mounted = "later"
    /\ selectedDocuments' = docIds
    /\ filterChangedAt' = issued
    /\ results' = None
    /\ rendered' = NotRendered
    /\ selectedCitation' = None
    /\ resultsFrom' = 0
    /\ UNCHANGED <<mounted, searchMode, query, loading, modalities,
                   advancedFilters, netVars, auxVars>>

includes(list, x) == \E i \in 1 .. Len(list) : list[i] = x

\* DocumentFilter.toggleDocument(docId)
toggleDocument(docId) ==
    handleFilterChange(
        IF includes(selectedDocuments, docId)
        THEN SelectSeq(selectedDocuments, LAMBDA id : id # docId)
        ELSE Append(selectedDocuments, docId))

\* DocumentFilter.selectAll, with the fetched document list in `documents`.
selectAll == handleFilterChange(DocumentList)

\* DocumentFilter.clearAll
clearAll == handleFilterChange(<<>>)

\* Search.handleAdvancedFilterChange(filters), from AdvancedFilters'
\* handleApply and handleReset.
handleAdvancedFilterChange(filters) ==
    /\ Usable
    /\ mounted = "later"
    /\ advancedFilters' = Some(filters)
    /\ filterChangedAt' = issued
    /\ results' = None
    /\ rendered' = NotRendered
    /\ selectedCitation' = None
    /\ resultsFrom' = 0
    /\ UNCHANGED <<mounted, searchMode, query, loading, modalities,
                   selectedDocuments, netVars, auxVars>>

\* The page stops showing SearchInterface and the results view: their state
\* is lost; the handleSubmit calls still awaiting go on.
UnmountSearch ==
    /\ query' = <<>>
    /\ loading' = FALSE
    /\ modalities' = [m \in {"text", "image", "audio"} |-> TRUE]
    /\ selectedCitation' = None
    /\ rendered' = NotRendered
    /\ inflight' = {[r EXCEPT !.live = FALSE] : r \in inflight}

\* The page shows them again: a fresh SearchInterface, and the results view
\* for the results the page still holds.
MountSearch ==
    /\ rendered' = ResultsDisplay(results)
    /\ UNCHANGED <<query, loading, modalities, selectedCitation, inflight>>

SearchModes == {"text", "similarity", "image"}

\* SimilaritySearch or ImageSearch is unmounted: its state is lost, its
\* requests and FileReaders go on, and the next one mounted starts afresh.
UnmountFileSearch ==
    /\ simFile' = None
    /\ simPreview' = None
    /\ simLoading' = FALSE
    /\ simResults' = None
    /\ simRequests' = {[r EXCEPT !.live = FALSE] : r \in simRequests}
    /\ simReaders' = {[r EXCEPT !.live = FALSE] : r \in simReaders}
    /\ UNCHANGED <<simIssued, simSelections, simMessages>>

\* The mode buttons of Search: setSearchMode(mode) replaces what the page
\* shows below them.
setSearchMode(mode) ==
    /\ Alive
    /\ mounted = "later"
    /\ mode # searchMode
    /\ searchMode' = mode
    /\ IF searchMode = "text" THEN UnmountSearch
       ELSE IF mode = "text" THEN MountSearch
       ELSE UNCHANGED <<query, loading, modalities, selectedCitation, rendered,
                        inflight>>
    /\ IF searchMode = "text" THEN UNCHANGED simVars ELSE UnmountFileSearch
    /\ UNCHANGED <<results, resultsFrom, mounted, filterVars, issued, delivered,
                   alerts, uploadVars, docsVars, citeVars, chunkVars>>

----------------------------------------------------------------------------
(* Documents page *)

\* A filter button: setFilter(f); the effect on [filter] calls fetchDocuments.
setFilter(f) ==
    /\ ~upMounted
    /\ f # filter
    /\ listingsIssued < MaxListings
    /\ filter' = f
    /\ fetchDocuments(f)
    /\ UNCHANGED <<documents, serverDocs, deletes, deletesIssued, lastPrompt,
                   docAlerts, listFailed, shownFor, notDocs>>

\* The server computes the answer to a listing request.
ServerLists(q) ==
    /\ q \in listings
    /\ q.resp = None
    /\ listings' = (listings \ {q}) \cup
           {[q EXCEPT !.resp = Some(Listing(serverDocs, q.modality))]}
    /\ UNCHANGED <<documents, docLoading, filter, serverDocs, listingsIssued,
                   deletes, deletesIssued, lastPrompt, docAlerts, listFailed,
                   shownFor, notDocs>>

\* fetchDocuments after its await: setDocuments(response.data), then
\* setLoading(false).
ListingResolved(q) ==
    /\ q \in listings
    /\ q.resp # None
    /\ listings' = listings \ {q}
    /\ documents' = Val(q.resp)
    /\ shownFor' = Some(q.modality)
    /\ docLoading' = FALSE
    /\ UNCHANGED <<filter, serverDocs, listingsIssued, deletes, deletesIssued,
                   lastPrompt, docAlerts, listFailed, notDocs>>

\* fetchDocuments when its request fails: the error is logged, then
\* setLoading(false).
ListingRejected(q) ==
    /\ q \in listings
    /\ listings' = listings \ {q}
    /\ docLoading' = FALSE
    /\ listFailed' = TRUE
    /\ UNCHANGED <<documents, filter, serverDocs, listingsIssued, deletes,
                   deletesIssued, lastPrompt, docAlerts, shownFor, notDocs>>

\* Mutant of handleDelete: the request is sent whatever the user answers.
handleDelete_unconfirmed(id, ok) ==
    /\ ~upMounted /\ ~docLoading
    /\ id \in documents
    /\ deletesIssued < MaxDeletes
    /\ lastPrompt' = Some([doc |-> id, ok |-> ok])
    /\ deletesIssued' = deletesIssued + 1
    /\ deletes' = deletes \cup
           {[id |-> deletesIssued + 1, doc |-> id, filter |-> filter]}
    /\ UNCHANGED <<documents, docLoading, filter, serverDocs, listings,
                   listingsIssued, docAlerts, listFailed, shownFor, notDocs>>

\* handleDelete(id) from the click on a listed document's delete button to
\* its await: confirm() is answered with `ok`; the request is sent only when
\* it is. The request keeps the fetchDocuments of its closure, which reads
\* the filter selected at the click.
handleDelete(id, ok) ==
    /\ ~upMounted /\ ~docLoading
    /\ id \in documents
    /\ deletesIssued < MaxDeletes
    /\ lastPrompt' = Some([doc |-> id, ok |-> ok])
    /\ IF ok
       THEN /\ deletesIssued' = deletesIssued + 1
            /\ deletes' = deletes \cup
                   {[id |-> deletesIssued + 1, doc |-> id, filter |-> filter]}
       ELSE UNCHANGED <<deletes, deletesIssued>>
    /\ UNCHANGED <<documents, docLoading, filter, serverDocs, listings,
                   listingsIssued, docAlerts, listFailed, shownFor, notDocs>>

\* DELETE /documents/{id} succeeds: the server no longer holds the document,
\* and handleDelete calls fetchDocuments.
DeleteResolved(q) ==
    /\ q \in deletes
    /\ q.doc \in serverDocs
    /\ deletes' = deletes \ {q}
    /\ serverDocs' = serverDocs \ {q.doc}
    /\ fetchDocuments(q.filter)
    /\ UNCHANGED <<documents, filter, deletesIssued, lastPrompt, docAlerts,
                   listFailed, shownFor, notDocs>>

\* DELETE /documents/{id} fails: handleDelete's catch shows an alert.
DeleteRejected(q) ==
    /\ q \in deletes
    /\ deletes' = deletes \ {q}
    /\ docAlerts' = docAlerts + 1
    /\ UNCHANGED <<documents, docLoading, filter, serverDocs, listings,
                   listingsIssued, deletesIssued, lastPrompt, listFailed,
                   shownFor, notDocs>>

----------------------------------------------------------------------------
(* UploadManager *)

UpperCase == <<"A", "B", "C", "D", "E", "F", "G", "H", "I", "J", "K", "L", "M",
               "N", "O", "P", "Q", "R", "S", "T", "U", "V", "W", "X", "Y", "Z">>
LowerCase == <<"a", "b", "c", "d", "e", "f", "g", "h", "i", "j", "k", "l", "m",
               "n", "o", "p", "q", "r", "s", "t", "u", "v", "w", "x", "y", "z">>

\* String.prototype.toLowerCase
toLowerCase(str) ==
    [i \in 1 .. Len(str) |->
        IF \E k \in 1 .. Len(UpperCase) : UpperCase[k] = str[i]
        THEN LowerCase[CHOOSE k \in 1 .. Len(UpperCase) : UpperCase[k] = str[i]]
        ELSE str[i]]

\* name.split('.').pop(): what follows the last dot, or the whole name when
\* it has no dot.
splitPop(name) ==
    LET dots == {i \in 1 .. Len(name) : name[i] = "."}
    IN  IF dots = {} THEN name
        ELSE SubSeq(name, (CHOOSE i \in dots : \A j \in dots : j <= i) + 1, Len(name))

DocumentExts == { <<"p", "d", "f">>, <<"d", "o", "c", "x">>, <<"d", "o", "c">> }
ImageExts == { <<"p", "n", "g">>, <<"j", "p", "g">>, <<"j", "p", "e", "g">>,
               <<"g", "i", "f">>, <<"b", "m", "p">> }
AudioExts == { <<"m", "p", "3">>, <<"w", "a", "v">>, <<"m", "4", "a">>,
               <<"f", "l", "a", "c">>, <<"o", "g", "g">> }

getFileType(name) ==
    LET ext == toLowerCase(splitPop(name))
    IN  IF ext \in DocumentExts THEN "document"
        ELSE IF ext \in ImageExts THEN "image"
        ELSE IF ext \in AudioExts THEN "audio"
        ELSE "unknown"

\* The names of the files the user picks or drops.
FileNames ==
    { <<"a", ".", "P", "D", "F">>, <<"b", ".", "p", "n", "g">>,
      <<"c", ".", "t", "x", "t">>, <<"m", "p", "3">> }

\* Mutant of FileObject: a file is queued as already uploading.
FileObject_createdUploading(id, name) ==
    [id |-> id, name |-> name, type |-> getFileType(name), progress |-> 0,
     status |-> "uploading"]

\* The object handleFiles queues for a file.
FileObject(id, name) ==
    [id |-> id, name |-> name, type |-> getFileType(name), progress |-> 0,
     status |-> "pending"]

\* Mutant of uploadFn: a file of unknown type is posted as a document.
uploadFn_defaultsToDocument(type) ==
    IF type = "image" THEN Some("/upload/image")
    ELSE IF type = "audio" THEN Some("/upload/audio")
    ELSE Some("/upload/document")

\* uploadFile's choice of uploadFn, as the endpoint the chosen api function
\* posts to; None where uploadFile throws 'Unsupported file type'.
uploadFn(type) ==
    IF type = "document" THEN Some("/upload/document")
    ELSE IF type = "image" THEN Some("/upload/image")
    ELSE IF type = "audio" THEN Some("/upload/audio")
    ELSE None

\* setFiles(prev => prev.map(f => f.id === id ? { ...f, status } : f))
setStatus(fs, id, status) ==
    [i \in 1 .. Len(fs) |->
        IF fs[i].id = id THEN [fs[i] EXCEPT !.status = status] ELSE fs[i]]

\* setFiles(prev => prev.map(f => f.id === id ? { ...f, progress } : f))
setProgress(fs, id, progress) ==
    [i \in 1 .. Len(fs) |->
        IF fs[i].id = id THEN [fs[i] EXCEPT !.progress = progress] ELSE fs[i]]

\* The loop of handleUploadAll from the head of `queue` up to its next await
\* of a request, or to its end. uploadFile marks the file uploading; a file
\* of unsupported type throws before any request and is marked error, and
\* the loop goes on; otherwise the request is posted and awaited. The
\* setFiles calls of a call whose UploadManager was unmounted (live = FALSE)
\* change nothing.
RECURSIVE RunLoop(_, _, _, _)
RunLoop(fs, ps, queue, live) ==
    IF queue = <<>>
    THEN [files |-> fs, posts |-> ps, cur |-> None, queue |-> <<>>]
    ELSE LET fileObj == Head(queue)
             marked == IF live THEN setStatus(fs, fileObj.id, "uploading") ELSE fs
             endpoint == uploadFn(fileObj.type)
         IN  IF endpoint = None
             THEN RunLoop(IF live THEN setStatus(marked, fileObj.id, "error") ELSE fs,
                          ps, Tail(queue), live)
             ELSE [files |-> marked,
                   posts |-> Append(ps, [id |-> fileObj.id, name |-> fileObj.name,
                                         endpoint |-> Val(endpoint)]),
                   cur |-> Some(fileObj),
                   queue |-> Tail(queue)]

\* A running handleUploadAll call: the file whose request it awaits, the
\* files of its pendingFiles still to come, its pendingFiles, whether its
\* UploadManager is still the mounted one, and the filter that the
\* fetchDocuments of its onUploadComplete reads.
Batch(cur, queue, all, live, closureFilter) ==
    [cur |-> cur, queue |-> queue, all |-> all, live |-> live,
     filter |-> closureFilter]

UploadInit ==
    /\ upHost \in {"Home", "Documents"}
    /\ upMounted = FALSE
    /\ files = <<>>
    /\ uploading = FALSE
    /\ batches = {}
    /\ posts = <<>>
    /\ completions = <<>>
    /\ nextId = 0

\* What neither toggling the upload view nor the search mode changes.
pageKept == <<results, resultsFrom, mounted, searchMode, filterVars, issued,
              delivered, alerts, docsVars, sideVars>>

\* The host's toggle button: setShowUpload(true) mounts a fresh
\* UploadManager; on Home it takes the place of SearchInterface and the
\* results view.
ShowUpload ==
    /\ ~upMounted
    /\ upMounted' = TRUE
    /\ IF upHost = "Home" THEN UnmountSearch
       ELSE UNCHANGED <<query, loading, modalities, selectedCitation, rendered,
                        inflight>>
    /\ UNCHANGED <<upHost, files, uploading, batches, posts, completions,
                   nextId, pageKept>>

\* What unmounting UploadManager does to the calls still running.
Orphaned(bs) == {Batch(b.cur, b.queue, b.all, FALSE, b.filter) : b \in bs}

\* The host's toggle button: setShowUpload(false) unmounts UploadManager,
\* whose state is lost; running handleUploadAll calls go on. On Home,
\* SearchInterface and the results view are mounted again.
HideUpload ==
    /\ upMounted
    /\ upMounted' = FALSE
    /\ files' = <<>>
    /\ uploading' = FALSE
    /\ batches' = Orphaned(batches)
    /\ IF upHost = "Home" THEN MountSearch
       ELSE UNCHANGED <<query, loading, modalities, selectedCitation, rendered,
                        inflight>>
    /\ UNCHANGED <<upHost, posts, completions, nextId, pageKept>>

\* handleFiles([file]) for a picked or dropped file.
handleFiles(name) ==
    /\ upMounted
    /\ nextId < MaxFiles
    /\ nextId' = nextId + 1
    /\ files' = Append(files, FileObject(nextId + 1, name))
    /\ UNCHANGED <<upHost, upMounted, uploading, batches, posts, completions,
                   notUpload>>

\* Mutant of handleUploadAll: the button is not disabled while uploading
\* and every file not yet completed is taken.
handleUploadAll_retries ==
    /\ upMounted
    /\ \E i \in 1 .. Len(files) : files[i].status # "completed"
    /\ LET pendingFiles == SelectSeq(files, LAMBDA f : f.status # "completed")
           r == RunLoop(files, posts, pendingFiles, TRUE)
       IN  /\ files' = r.files
           /\ posts' = r.posts
           /\ IF r.cur = None
              THEN uploading' = FALSE /\ batches' = batches
              ELSE /\ uploading' = TRUE
                   /\ batches' = batches \cup
                        {Batch(Val(r.cur), r.queue, pendingFiles, TRUE, filter)}
    /\ UNCHANGED <<upHost, upMounted, completions, nextId, notUpload>>

\* handleUploadAll, from the click to its first await of a request or, when
\* no request is to be awaited, to its end. The button is disabled while
\* uploading and when no file is pending.
handleUploadAll ==
    /\ upMounted
    /\ ~uploading
    /\ \E i \in 1 .. Len(files) : files[i].status = "pending"
    /\ LET pendingFiles == SelectSeq(files, LAMBDA f : f.status = "pending")
           r == RunLoop(files, posts, pendingFiles, TRUE)
       IN  /\ files' = r.files
           /\ posts' = r.posts
           /\ IF r.cur = None
              THEN uploading' = FALSE /\ batches' = batches
              ELSE /\ uploading' = TRUE
                   /\ batches' = batches \cup
                        {Batch(Val(r.cur), r.queue, pendingFiles, TRUE, filter)}
    /\ UNCHANGED <<upHost, upMounted, completions, nextId, notUpload>>

\* onUploadProgress of the awaited request.
UploadProgress(b, progress) ==
    /\ b \in batches
    /\ b.live
    /\ files' = setProgress(files, b.cur.id, progress)
    /\ files' # files
    /\ UNCHANGED <<upHost, upMounted, uploading, batches, posts, completions,
                   nextId, notUpload>>

\* The rest of a handleUploadAll call after the awaited request was settled:
\* the loop goes on over b.queue; at its end setUploading(false).
Continue(b, fs, ps, live, stillMounted, others) ==
    LET r == RunLoop(fs, ps, b.queue, live)
    IN  /\ files' = r.files
        /\ posts' = r.posts
        /\ IF r.cur = None
           THEN /\ batches' = others
                /\ uploading' = IF live THEN FALSE
                                ELSE IF stillMounted THEN uploading ELSE FALSE
           ELSE /\ batches' = others \cup {Batch(Val(r.cur), r.queue, b.all, live, b.filter)}
                /\ uploading' = IF stillMounted THEN uploading ELSE FALSE

\* Mutant of UploadResolved: the file is marked completed but
\* onUploadComplete is not called.
UploadResolved_withoutCallback(b) ==
    /\ b \in batches
    /\ completions' = completions
    /\ Continue(b,
                IF b.live
                THEN setProgress(setStatus(files, b.cur.id, "completed"),
                                 b.cur.id, 100)
                ELSE files,
                posts, b.live, upMounted, batches \ {b})
    /\ UNCHANGED <<upHost, upMounted, nextId, notUpload>>

\* The awaited upload request resolves: the file is marked completed,
\* onUploadComplete is called (on the Documents page it closes the upload
\* view, which unmounts UploadManager, and calls fetchDocuments), and the
\* loop goes on.
UploadResolved(b) ==
    /\ b \in batches
    /\ LET closes == upHost = "Documents"
           completed == IF b.live
                        THEN setProgress(setStatus(files, b.cur.id, "completed"),
                                         b.cur.id, 100)
                        ELSE files
       IN  /\ completions' = Append(completions, [id |-> b.cur.id, name |-> b.cur.name])
           /\ upMounted' = IF closes THEN FALSE ELSE upMounted
           /\ Continue(b,
                       IF closes THEN <<>> ELSE completed,
                       posts,
                       b.live /\ ~closes,
                       upMounted /\ ~closes,
                       IF closes THEN Orphaned(batches \ {b}) ELSE batches \ {b})
    /\ IF upHost = "Documents"
       THEN /\ fetchDocuments(b.filter)
            /\ UNCHANGED <<documents, filter, serverDocs, deletes, deletesIssued,
                           lastPrompt, docAlerts, listFailed, shownFor>>
       ELSE UNCHANGED docsVars
    /\ UNCHANGED <<upHost, nextId, queryVars, sideVars>>

\* Mutant of UploadRejected: a failed upload ends the whole batch.
UploadRejected_abortsBatch(b) ==
    /\ b \in batches
    /\ files' = IF b.live THEN setStatus(files, b.cur.id, "error") ELSE files
    /\ batches' = batches \ {b}
    /\ uploading' = IF b.live THEN FALSE ELSE uploading
    /\ UNCHANGED <<upHost, upMounted, posts, completions, nextId, notUpload>>

\* The awaited upload request rejects: the file is marked error and the
\* loop goes on.
UploadRejected(b) ==
    /\ b \in batches
    /\ Continue(b,
                IF b.live THEN setStatus(files, b.cur.id, "error") ELSE files,
                posts, b.live, upMounted, batches \ {b})
    /\ UNCHANGED <<upHost, upMounted, completions, nextId, notUpload>>

\* The remove button, shown for a pending file.
removeFile(id) ==
    /\ upMounted
    /\ \E i \in 1 .. Len(files) : files[i].id = id /\ files[i].status = "pending"
    /\ files' = SelectSeq(files, LAMBDA f : f.id # id)
    /\ UNCHANGED <<upHost, upMounted, uploading, batches, posts, completions,
                   nextId, notUpload>>

\* Clear Completed, disabled when no file is completed.
clearCompleted ==
    /\ upMounted
    /\ \E i \in 1 .. Len(files) : files[i].status = "completed"
    /\ files' = SelectSeq(files, LAMBDA f : f.status # "completed")
    /\ UNCHANGED <<upHost, upMounted, uploading, batches, posts, completions,
                   nextId, notUpload>>

ProgressValues == {50}

UploadNext ==
    \/ ShowUpload
    \/ HideUpload
    \/ \E name \in FileNames : handleFiles(name)
    \/ handleUploadAll
    \/ \E b \in batches, p \in ProgressValues : UploadProgress(b, p)
    \/ \E b \in batches : UploadResolved(b)
    \/ \E b \in batches : UploadRejected(b)
    \/ \E id \in 1 .. nextId : removeFile(id)
    \/ clearCompleted

\* The search form is idle while UploadManager is exercised.
QueryOff ==
    /\ mounted = "later"
    /\ results = None
    /\ rendered = NotRendered
    /\ selectedCitation = None
    /\ FormInit

\* UploadManager on either host page, closed at first.
InitUpload ==
    UploadInit /\ DocsInit /\ QueryOff /\ CiteInit /\ ChunkInit /\ SimInit

SpecUpload == InitUpload /\ [][UploadNext]_vars

DocsNext ==
    \/ \E f \in Filters : setFilter(f)
    \/ \E q \in listings : ServerLists(q)
    \/ \E q \in listings : ListingResolved(q)
    \/ \E q \in listings : ListingRejected(q)
    \/ \E id \in DocumentIds, ok \in BOOLEAN : handleDelete(id, ok)
    \/ \E q \in deletes : DeleteResolved(q)
    \/ \E q \in deletes : DeleteRejected(q)
    \/ ShowUpload
    \/ HideUpload

UploadOnDocuments ==
    /\ upHost = "Documents"
    /\ upMounted = FALSE
    /\ files = <<>>
    /\ uploading = FALSE
    /\ batches = {}
    /\ posts = <<>>
    /\ completions = <<>>
    /\ nextId = 0

\* The Documents page just mounted.
InitDocs ==
    DocsInit /\ UploadOnDocuments /\ QueryOff /\ CiteInit /\ ChunkInit /\ SimInit

SpecDocs == InitDocs /\ [][DocsNext]_vars

(***************************************************************************)
(* Documents page: the chunk viewer                                        *)
(***************************************************************************)

\* response.data of GET /documents/{id}/chunks: the chunks the server holds
\* for the document.
getDocumentChunks(documentId) ==
    IF documentId = 1 THEN <<"c1">> ELSE <<"c2", "c3">>

\* The number of hooks a render of ChunksViewer calls: its two useState
\* calls come before `if (!isOpen) return null`, its useMemo after it.
HooksCalled(isOpen) == IF isOpen THEN 3 ELSE 2

\* ChunksViewer({ isOpen, document, chunks }) rendered again after a render
\* that left `prev`. React throws when a render calls another number of
\* hooks than the render before it ('Rendered more hooks than during the
\* previous render'); no error boundary catches it, so the page is taken
\* down. With the search box empty filteredChunks is chunks.
ChunksViewer(prev, isOpen, document, chunks) ==
    IF prev.status = "Error" THEN prev
    ELSE IF HooksCalled(isOpen) # HooksCalled(prev.status = "ok")
    THEN [status |-> "Error"]
    ELSE IF ~isOpen THEN [status |-> "closed"]
    ELSE [status |-> "ok", document |-> document, chunks |-> chunks]

\* The Documents page has not been taken down by an error thrown in a render.
PageUp == viewer.status # "Error"

\* handleViewChunks(doc) up to its await: a click on the chunk count or on
\* the View Chunks button of a listed document.
handleViewChunks(doc) ==
    /\ PageUp
    /\ ~upMounted
    /\ ~docLoading
    /\ doc \in documents
    /\ chunksIssued < MaxChunkRequests
    /\ chunksIssued' = chunksIssued + 1
    /\ chunkReqs' = chunkReqs \cup {[id |-> chunksIssued + 1, doc |-> doc]}
    /\ UNCHANGED <<selectedDoc, docChunks, showChunks, viewer, chunkAlerts,
                   notChunks>>

\* handleViewChunks after its await: setDocChunks(response.data),
\* setSelectedDoc(doc), setShowChunks(true), and the render they cause. On a
\* page that was taken down the three calls do nothing.
ChunksResolved(q) ==
    /\ q \in chunkReqs
    /\ q.doc \in serverDocs
    /\ chunkReqs' = chunkReqs \ {q}
    /\ IF PageUp
       THEN /\ docChunks' = getDocumentChunks(q.doc)
            /\ selectedDoc' = Some(q.doc)
            /\ showChunks' = TRUE
            /\ viewer' = ChunksViewer(viewer, TRUE, Some(q.doc),
                                      getDocumentChunks(q.doc))
       ELSE UNCHANGED <<docChunks, selectedDoc, showChunks, viewer>>
    /\ UNCHANGED <<chunksIssued, chunkAlerts, notChunks>>

\* handleViewChunks when its request fails: the error is logged and
\* reported with alert().
ChunksRejected(q) ==
    /\ q \in chunkReqs
    /\ chunkReqs' = chunkReqs \ {q}
    /\ chunkAlerts' = chunkAlerts + 1
    /\ UNCHANGED <<selectedDoc, docChunks, showChunks, viewer, chunksIssued,
                   notChunks>>

\* The Documents page with its list and its chunk viewer. The viewer's
\* onClose is no step of it: no render of the opened viewer succeeds.
ChunksNext ==
    \/ \E f \in Filters : PageUp /\ setFilter(f)
    \/ \E q \in listings : PageUp /\ ServerLists(q)
    \/ \E q \in listings : PageUp /\ ListingResolved(q)
    \/ \E q \in listings : PageUp /\ ListingRejected(q)
    \/ \E doc \in DocumentIds : handleViewChunks(doc)
    \/ \E q \in chunkReqs : ChunksResolved(q)
    \/ \E q \in chunkReqs : ChunksRejected(q)

SpecChunks == InitDocs /\ [][ChunksNext]_vars

(***************************************************************************)
(* SimilaritySearch and ImageSearch                                        *)
(***************************************************************************)

\* The names of the files the user picks or drops on the two components.
SearchFileNames ==
    { <<"a", ".", "P", "D", "F">>, <<"c", ".", "t", "x", "t">>,
      <<"b", ".", "p", "n", "g">>, <<"p", "d", "f">> }

\* name.lastIndexOf('.'): the 0-based index of the last dot, -1 without one.
lastIndexOf(name) ==
    LET dots == {i \in 1 .. Len(name) : name[i] = "."}
    IN  IF dots = {} THEN -1
        ELSE (CHOOSE i \in dots : \A j \in dots : j <= i) - 1

\* selectedFile.name.substring(selectedFile.name.lastIndexOf('.')).toLowerCase();
\* substring takes a negative start as 0.
fileExt(name) ==
    LET start == IF lastIndexOf(name) < 0 THEN 0 ELSE lastIndexOf(name)
    IN  toLowerCase(substring(name, start, Len(name)))

\* Mutant of validTypes: both components take documents and images.
validTypes_ofBothModes(mode) ==
    { <<".", "p", "d", "f">>, <<".", "d", "o", "c", "x">>,
      <<".", "d", "o", "c">>, <<".", "t", "x", "t">>,
      <<".", "j", "p", "g">>, <<".", "j", "p", "e", "g">>,
      <<".", "p", "n", "g">>, <<".", "g", "i", "f">>, <<".", "b", "m", "p">> }

\* validTypes of handleFileSelect in SimilaritySearch and in ImageSearch.
validTypes(mode) ==
    IF mode = "similarity"
    THEN { <<".", "p", "d", "f">>, <<".", "d", "o", "c", "x">>,
           <<".", "d", "o", "c">>, <<".", "t", "x", "t">> }
    ELSE { <<".", "j", "p", "g">>, <<".", "j", "p", "e", "g">>,
           <<".", "p", "n", "g">>, <<".", "g", "i", "f">>, <<".", "b", "m", "p">> }

\* One of the two components is the mounted one.
FileSearchShown == mounted = "later" /\ searchMode \in {"similarity", "image"}

\* What the two components leave alone.
notSim == <<queryVars, uploadVars, docsVars, citeVars, chunkVars>>

\* handleFileSelect(selectedFile), called by handleFileInput and by
\* handleDrop: a file of another type is refused with alert(); otherwise
\* setFile, setResults(null) and, in ImageSearch, a FileReader is started
\* for the preview. (dragActive, which handleDrop resets, only styles the
\* drop zone.)
handleFileSelect(name) ==
    /\ FileSearchShown
    /\ simSelections.count < MaxSelections
    /\ simSelections' = [count |-> simSelections.count + 1, last |-> Some(name)]
    /\ IF fileExt(name) \notin validTypes(searchMode)
       THEN /\ simMessages' = [simMessages EXCEPT !.invalid = @ + 1]
            /\ UNCHANGED <<simFile, simResults, simReaders>>
       ELSE /\ simFile' = Some(name)
            /\ simResults' = None
            /\ simReaders' =
                 IF searchMode = "image"
                 THEN simReaders \cup
                        {[id |-> simSelections.count + 1, file |-> name, live |-> TRUE]}
                 ELSE simReaders
            /\ UNCHANGED simMessages
    /\ UNCHANGED <<simPreview, simLoading, simRequests, simIssued, notSim>>

\* reader.onloadend of ImageSearch: setPreview(reader.result).
onloadend(r) ==
    /\ r \in simReaders
    /\ simReaders' = simReaders \ {r}
    /\ simPreview' = IF r.live THEN Some(r.file) ELSE simPreview
    /\ UNCHANGED <<simFile, simLoading, simResults, simRequests, simIssued,
                   simSelections, simMessages, notSim>>

\* handleSubmit of the two components up to its await: it returns at once
\* without a file; the button is disabled while loading.
handleSubmitFile ==
    /\ FileSearchShown
    /\ IF simFile = None
       THEN UNCHANGED <<simLoading, simRequests, simIssued>>
       ELSE /\ ~simLoading
            /\ simIssued < MaxFileSearches
            /\ simLoading' = TRUE
            /\ simIssued' = simIssued + 1
            /\ simRequests' = simRequests \cup
                 {[id |-> simIssued + 1, file |-> Val(simFile), live |-> TRUE]}
    /\ UNCHANGED <<simFile, simPreview, simResults, simReaders, simSelections,
                   simMessages, notSim>>

\* handleSubmit after its await: setResults(response.data), then
\* setLoading(false). The response is named by its request and the file
\* that was posted.
FileSearchResolved(r) ==
    /\ r \in simRequests
    /\ simRequests' = simRequests \ {r}
    /\ simResults' = IF r.live THEN Some([request |-> r.id, file |-> r.file])
                     ELSE simResults
    /\ simLoading' = IF r.live THEN FALSE ELSE simLoading
    /\ UNCHANGED <<simFile, simPreview, simIssued, simReaders, simSelections,
                   simMessages, notSim>>

\* handleSubmit when its request fails: alert(), then setLoading(false).
FileSearchRejected(r) ==
    /\ r \in simRequests
    /\ simRequests' = simRequests \ {r}
    /\ simMessages' = [simMessages EXCEPT !.error = @ + 1]
    /\ simLoading' = IF r.live THEN FALSE ELSE simLoading
    /\ UNCHANGED <<simFile, simPreview, simResults, simIssued, simReaders,
                   simSelections, notSim>>

\* The Remove button, shown with the selected file.
clearFile ==
    /\ FileSearchShown
    /\ simFile # None
    /\ simFile' = None
    /\ simPreview' = None
    /\ simResults' = None
    /\ UNCHANGED <<simLoading, simRequests, simIssued, simReaders, simSelections,
                   simMessages, notSim>>

FileSearchNext ==
    \/ \E mode \in SearchModes : setSearchMode(mode)
    \/ \E name \in SearchFileNames : handleFileSelect(name)
    \/ \E r \in simReaders : onloadend(r)
    \/ handleSubmitFile
    \/ \E r \in simRequests : FileSearchResolved(r)
    \/ \E r \in simRequests : FileSearchRejected(r)
    \/ clearFile

\* The Search page just mounted, in its text mode.
InitSearchPage ==
    /\ mounted = "later"
    /\ results = None
    /\ rendered = NotRendered
    /\ selectedCitation = None
    /\ FormInit
    /\ UploadOff
    /\ DocsInit
    /\ CiteInit
    /\ ChunkInit
    /\ SimInit

SpecFileSearch == InitSearchPage /\ [][FileSearchNext]_vars

\* One citation shown, everything else idle.
InitCitation ==
    CiteInit /\ QueryOff /\ UploadOff /\ DocsInit /\ ChunkInit /\ SimInit

SpecCitation == InitCitation /\ [][CitationNext]_vars

\* The search form and the results view, always shown: Home with the
\* earlier SearchInterface, Search with the later one.
Next ==
    \/ \E q \in QueryTexts : onChange(q)
    \/ \E q \in QueryTexts : onSuggestionClick(q)
    \/ \E m \in {"text", "image", "audio"} : toggleModality(m)
    \/ handleSubmitEarlier
    \/ handleSubmit
    \/ \E r \in inflight, data \in Responses : QueryResolved(r, data)
    \/ \E r \in inflight : QueryRejected(r)
    \/ \E d \in DocumentIds : toggleDocument(d)
    \/ selectAll
    \/ clearAll
    \/ \E f \in FilterValues : handleAdvancedFilterChange(f)
    \/ (Usable /\ ViewNext)

Spec == Init /\ [][Next]_vars

\* The question, the document and the filter value the pages are exercised
\* with when they are mounted and unmounted.
PageTexts == {<<"q">>}
PageDocuments == {1}
PageFilters == {EmptyFilters}

\* The search pages with what replaces the form on them: Home with its upload
\* view, Search with its search modes; requests may stay unanswered.
PagesNext ==
    \/ \E q \in PageTexts : onChange(q)
    \/ handleSubmitEarlier
    \/ handleSubmit
    \/ \E r \in inflight : ServerHangs(r)
    \/ \E r \in inflight, data \in Responses : QueryResolved(r, data)
    \/ \E r \in inflight : QueryRejected(r)
    \/ \E d \in PageDocuments : toggleDocument(d)
    \/ \E f \in PageFilters : handleAdvancedFilterChange(f)
    \/ \E mode \in SearchModes : setSearchMode(mode)
    \/ (Alive /\ mounted = "earlier" /\ ShowUpload)
    \/ (Alive /\ mounted = "earlier" /\ HideUpload)

SpecPages == Init /\ [][PagesNext]_vars

----------------------------------------------------------------------------
(* Citation markers, stated independently of the binder's scan *)

\* A marker occupies positions i..j (1-based): "[", one or more digits, "]".
IsMarker(text, i, j) ==
    /\ 1 <= i /\ i + 1 < j /\ j <= Len(text)
    /\ text[i] = "[" /\ text[j] = "]"
    /\ \A k \in (i + 1) .. (j - 1) : text[k] \in Digits

MarkerSpans(text) ==
    {sp \in (1 .. Len(text)) \X (1 .. Len(text)) : IsMarker(text, sp[1], sp[2])}

\* The numbers of the markers of the text, from left to right.
MarkerNums(text) ==
    LET spans == MarkerSpans(text)
    IN  [k \in 1 .. Cardinality(spans) |->
            LET sp == CHOOSE s \in spans :
                          Cardinality({t \in spans : t[1] < s[1]}) = k - 1
            IN  parseInt(SubSeq(text, sp[1] + 1, sp[2] - 1))]

\* The text with every marker written with the decimal numeral of its number.
RECURSIVE CanonicalFrom(_, _, _)
CanonicalFrom(text, spans, i) ==
    IF i > Len(text) THEN <<>>
    ELSE IF \E sp \in spans : sp[1] = i
    THEN LET sp == CHOOSE t \in spans : t[1] = i
         IN  <<"[">> \o NumberText(parseInt(SubSeq(text, i + 1, sp[2] - 1)))
                     \o <<"]">> \o CanonicalFrom(text, spans, sp[2] + 1)
    ELSE <<text[i]>> \o CanonicalFrom(text, spans, i + 1)

Canonical(text) == CanonicalFrom(text, MarkerSpans(text), 1)

RECURSIVE Flatten(_)
Flatten(parts) ==
    IF parts = <<>> THEN <<>> ELSE Head(parts).text \o Flatten(Tail(parts))

Links(parts) == SelectSeq(parts, LAMBDA p : p.kind = "link")

Range(f) == {f[i] : i \in DOMAIN f}

Answer == Val(results).answer
CitationList == Val(Val(results).citations)
Shown == results # None /\ rendered.status = "ok"
HasList == results # None /\ IsSome(Val(results).citations)

----------------------------------------------------------------------------
(* Claims about the citation binder, checked under SpecRender *)

Resolvable(n) == \E c \in Range(CitationList) : c.id = n

C1_Bound ==
    (Shown /\ HasList) =>
        LET links == Links(rendered.parts)
            nums == MarkerNums(Answer)
        IN  \A k \in DOMAIN nums :
                Resolvable(nums[k]) =>
                    /\ k <= Len(links)
                    /\ IsSome(links[k].citation)
                    /\ Val(links[k].citation).id = nums[k]
                    /\ Val(links[k].citation) \in Range(CitationList)

C1_Activate ==
    \A i \in 1 .. Len(rendered.parts) :
        (ClickMarker(i) /\ HasList /\ Resolvable(rendered.parts[i].key)) =>
            /\ IsSome(selectedCitation')
            /\ Val(selectedCitation').id = rendered.parts[i].key
            /\ Val(selectedCitation') \in Range(CitationList)

\* C1: every marker [n] of the answer for which the citations list holds a
\* citation with id n is rendered as a link bound to one citation of the
\* list, whose id is n, wherever it stands in the list; activating the link
\* selects that citation.
C1_MarkerBoundById == [](C1_Bound) /\ [][C1_Activate]_vars

\* C1 witness: a marker [1] bound to, and after activation showing, the
\* citation with id 1 that stands second in the list.
C1_Witness ==
    /\ Shown /\ HasList
    /\ Answer = <<"x", "[", "1", "]">>
    /\ CitationList = <<[id |-> 2, source |-> "a.pdf"], [id |-> 1, source |-> "b.png"]>>
    /\ selectedCitation = Some([id |-> 1, source |-> "b.png"])

\* C2: a marker [n] with no citation of id n in the list is still rendered,
\* as the link at its place in the order of markers showing [n], and it
\* differs from a resolved link: it carries no citation and an empty title,
\* while every resolved link has a non-empty title.
C2_UnresolvedShownAndFlagged ==
    (Shown /\ HasList) =>
        LET links == Links(rendered.parts)
            nums == MarkerNums(Answer)
        IN  /\ Len(links) = Len(nums)
            /\ \A k \in DOMAIN nums :
                /\ links[k].text = <<"[">> \o NumberText(nums[k]) \o <<"]">>
                /\ (~Resolvable(nums[k])) =>
                       (links[k].citation = None /\ links[k].title = <<>>)
                /\ Resolvable(nums[k]) => links[k].title # <<>>

\* C2 witness: an answer with a resolved marker and an unresolved one.
C2_Witness ==
    /\ Shown /\ HasList
    /\ Answer = <<"[", "1", "]", "[", "2", "]">>
    /\ CitationList = <<[id |-> 1, source |-> "a.pdf"]>>
    /\ Len(Links(rendered.parts)) = 2

\* C3: rendering never throws, whatever the answer and the citations value.
C3_RenderNeverThrows == rendered.status # "TypeError"

\* C4: all occurrences of one marker number carry the same citation, and
\* the Sources section shows the citations of the response, each once, in
\* the order of the list, whatever markers the answer holds.
C4_SameCitationOneCardEach ==
    (Shown /\ HasList) =>
        LET links == Links(rendered.parts)
            nums == MarkerNums(Answer)
        IN  /\ Len(links) = Len(nums)
            /\ \A k, l \in DOMAIN nums :
                   nums[k] = nums[l] => links[k].citation = links[l].citation
            /\ rendered.cards = CitationList

\* C4 witness: marker [1] twice, no marker for the second citation, and
\* two citations that share the id 1.
C4_Witness ==
    /\ Shown /\ HasList
    /\ Answer = <<"[", "1", "]", "[", "1", "]">>
    /\ CitationList = <<[id |-> 1, source |-> "a.pdf"], [id |-> 1, source |-> "b.png"]>>
    /\ Len(rendered.cards) = 2

NoLeadingZero(text) ==
    \A sp \in MarkerSpans(text) : text[sp[1] + 1] # "0" \/ sp[2] = sp[1] + 2

\* C5 as stated: the parts' texts, in order, concatenate to the answer.
C5_PartsConcatToAnswer ==
    Shown => Flatten(rendered.parts) = Answer

\* C5 amended: the parts' texts concatenate to the answer with every marker
\* written as "[" + String(parseInt(digits)) + "]" (the answer itself when
\* no marker has a leading zero), with one link per marker occurrence, in
\* order of occurrence.
C5_PartsConcatToCanonicalAnswer ==
    Shown =>
        LET links == Links(rendered.parts)
            nums == MarkerNums(Answer)
        IN  /\ Flatten(rendered.parts) = Canonical(Answer)
            /\ NoLeadingZero(Answer) => Flatten(rendered.parts) = Answer
            /\ Len(links) = Len(nums)
            /\ \A k \in DOMAIN nums : links[k].key = nums[k]
            /\ \A i \in 1 .. Len(rendered.parts) :
                   rendered.parts[i].kind = "text" =>
                       rendered.parts[i].text =
                           SubSeq(Answer, rendered.parts[i].key + 1,
                                  rendered.parts[i].key + Len(rendered.parts[i].text))

\* C5 witness: markers [1] then [2] with text between and after them.
C5_Witness ==
    /\ Shown
    /\ Answer = <<"[", "1", "]", "x", "[", "2", "]">>
    /\ Len(rendered.parts) = 3

----------------------------------------------------------------------------
(* Claims about the query flow, checked under Spec *)

\* The requests a step sends.
Sent == {r \in inflight' : r.id > issued}

Checked == {m \in {"text", "image", "audio"} : modalities[m]}

\* C6: every request sent carries as `question` the string in the search
\* box at submit time, and a top_k of 5.
C6_QuestionIsBoxText ==
    [][\A r \in Sent :
          /\ r.body.question.type = "string"
          /\ r.body.question.value = query
          /\ r.body.top_k = 5]_vars

\* C7: the modalities sent with a request are exactly the checkboxes that
\* are checked at submit time.
C7_ModalitiesAreChecked ==
    [][\A r \in Sent : Range(r.body.include_modalities) = Checked]_vars

\* C8: no request is sent with an empty list of modalities.
C8_ModalitiesNonEmpty ==
    \A r \in inflight :
        /\ r.body.include_modalities # <<>>
        /\ Range(r.body.include_modalities) \subseteq {"text", "image", "audio"}

\* C9: on the Search page a request carries the selected document ids as
\* its document_ids field when some are selected, and has no such field
\* when none is.
C9_AllowListIsSelection ==
    [][\A r \in Sent :
          mounted = "later" =>
              IF Len(selectedDocuments) > 0
              THEN /\ "document_ids" \in DOMAIN r.body
                   /\ r.body.document_ids = selectedDocuments
              ELSE "document_ids" \notin DOMAIN r.body]_vars

\* Every answered request either delivered its response or raised an alert.
C10_Accounted == issued = Cardinality(inflight) + delivered + alerts

\* A step that raises an alert answers one request, delivers nothing and
\* leaves the results and their view as they were.
C10_Failure ==
    alerts' # alerts =>
        /\ alerts' = alerts + 1
        /\ Cardinality(inflight') = Cardinality(inflight) - 1
        /\ delivered' = delivered
        /\ results' = results
        /\ rendered' = rendered

\* A step that delivers a response raises no alert and displays it; with a
\* list of zero citations the view renders and shows no Sources cards.
C10_Success ==
    delivered' # delivered =>
        /\ alerts' = alerts
        /\ results' \in {Some(d) : d \in Responses}
        /\ Val(results').citations = Some(<<>>) /\ FormShown =>
               /\ rendered'.status = "ok"
               /\ rendered'.cards = <<>>
               /\ Flatten(rendered'.parts) = Val(results').answer

\* C10: a failed query raises an alert, calls onResults not at all and
\* leaves the displayed results unchanged; a response with zero citations
\* is displayed as a result, without an alert and without a render error.
C10_FailureDistinctFromEmpty ==
    [](C10_Accounted) /\ [][C10_Failure /\ C10_Success]_vars

\* C10 witness: an empty result is on display, delivered by the first
\* query, after the second query failed.
C10_Witness ==
    /\ issued = 2 /\ delivered = 1 /\ alerts = 1 /\ inflight = {}
    /\ results = Some([answer |-> <<"x">>, citations |-> Some(<<>>)])
    /\ rendered.status = "ok"
    /\ ~loading

----------------------------------------------------------------------------
(* Upload queue *)

Ids(fs) == {fs[i].id : i \in 1 .. Len(fs)}
Listed(fs, id) == \E i \in 1 .. Len(fs) : fs[i].id = id
StatusOf(fs, id) == fs[CHOOSE i \in 1 .. Len(fs) : fs[i].id = id].status
Unsupported(name) ==
    LET ext == toLowerCase(splitPop(name))
    IN  ext \notin DocumentExts \cup ImageExts \cup AudioExts

\* The file still waits in the loop of a handleUploadAll call of the mounted
\* UploadManager.
Waiting(bs, id) == \E b \in bs : b.live /\ Listed(b.queue, id)

C11_NeverSent ==
    /\ \A k \in 1 .. Len(posts) : ~Unsupported(posts[k].name)
    /\ \A k \in 1 .. Len(completions) : ~Unsupported(completions[k].name)
    /\ \A i \in 1 .. Len(files) :
           Unsupported(files[i].name) => files[i].status \in {"pending", "error"}

\* A step in which Upload All comes to the file `id` and passes it.
Passed(id) ==
    /\ \/ Waiting(batches, id)
       \/ handleUploadAll /\ Listed(files, id) /\ StatusOf(files, id) = "pending"
    /\ ~Waiting(batches', id)

C11_EndsInError ==
    \A i \in 1 .. Len(files') :
        Unsupported(files'[i].name) /\ Passed(files'[i].id)
            => files'[i].status = "error"

Ends(b) ==
    /\ b \in batches
    /\ \A b2 \in batches' : b2.all # b.all

Attempted(f, ps) ==
    Unsupported(f.name) \/ \E k \in 1 .. Len(ps) : ps[k].id = f.id

\* Every file that was pending when the batch was started has been attempted
\* when it ends, also when UploadManager was unmounted meanwhile.
C12_AllAttempted ==
    /\ \A b \in batches :
           Ends(b) => \A k \in 1 .. Len(b.all) : Attempted(b.all[k], posts')
    /\ handleUploadAll =>
           \A i \in 1 .. Len(files) :
               files[i].status = "pending" =>
                   \/ Attempted(files[i], posts')
                   \/ Waiting(batches', files[i].id)

\* When a batch of the mounted UploadManager ends, none of its files is
\* pending or uploading and the uploading flag is false.
C12_EndState ==
    /\ \A b \in batches :
           Ends(b) /\ b.live =>
               /\ ~uploading'
               /\ \A i \in 1 .. Len(files') :
                      Listed(b.all, files'[i].id)
                          => files'[i].status \in {"completed", "error"}
    /\ handleUploadAll /\ batches' = batches =>
           /\ ~uploading'
           /\ \A i \in 1 .. Len(files') :
                  files'[i].status \in {"completed", "error"}

\* A file is marked error only when it is unsupported or its own upload
\* failed.
C12_OnlyFailedMarked ==
    \A i \in 1 .. Len(files') :
        LET f == files'[i]
        IN  f.status = "error" /\ Listed(files, f.id) /\ StatusOf(files, f.id) # "error"
                => \/ Unsupported(f.name)
                   \/ \E b \in batches :
                          /\ b.live /\ b.cur.id = f.id
                          /\ completions' = completions

\* C12: Upload All attempts every file that was pending when it was started;
\* a failed upload marks only that file as error and the remaining files are
\* still uploaded; when the batch ends none of its files is pending or
\* uploading and the uploading flag is false again.
C12_FailureLocalToFile ==
    [][C12_AllAttempted /\ C12_EndState /\ C12_OnlyFailedMarked]_vars

\* A batch of two files has ended: the upload of the first failed, the
\* second was uploaded all the same.
C12_Witness ==
    /\ Len(files) = 2
    /\ files[1].status = "error" /\ ~Unsupported(files[1].name)
    /\ files[2].status = "completed"
    /\ Len(posts) = 2 /\ Len(completions) = 1
    /\ ~uploading /\ batches = {}

Statuses == {"pending", "uploading", "completed", "error"}

C18_StatusInSet == \A i \in 1 .. Len(files) : files[i].status \in Statuses

C18_CreatedPending ==
    \A i \in 1 .. Len(files') :
        ~Listed(files, files'[i].id) /\ files'[i].id > nextId
            => files'[i].status = "pending"

\* The status changes the source text names.
NamedChange(old, new) ==
    \/ old = "pending" /\ new = "uploading"
    \/ old = "uploading" /\ new = "completed"
    \/ old = "uploading" /\ new = "error"

C18_OnlyNamedChanges ==
    \A i \in 1 .. Len(files') :
        LET f == files'[i]
        IN  Listed(files, f.id) /\ StatusOf(files, f.id) # f.status
                => NamedChange(StatusOf(files, f.id), f.status)

\* C18 as stated: a file is created pending and its status changes only by
\* pending to uploading, uploading to completed, or uploading to error.
C18_StatusLifecycle ==
    [](C18_StatusInSet) /\ [][C18_CreatedPending /\ C18_OnlyNamedChanges]_vars

C18_ChangesWithUnsupported ==
    \A i \in 1 .. Len(files') :
        LET f == files'[i]
        IN  Listed(files, f.id) /\ StatusOf(files, f.id) # f.status
                => \/ NamedChange(StatusOf(files, f.id), f.status)
                   \/ /\ Unsupported(f.name)
                      /\ StatusOf(files, f.id) = "pending"
                      /\ f.status = "error"

\* C18, amended: as stated, and a file of unsupported type goes from pending
\* to error when Upload All comes to it, since it is marked uploading and
\* error in the same update.
C18_StatusLifecycleWithUnsupported ==
    [](C18_StatusInSet) /\ [][C18_CreatedPending /\ C18_ChangesWithUnsupported]_vars

\* A completed, a rejected unsupported and a pending file side by side.
C18_Witness ==
    /\ Len(files) = 3
    /\ {files[i].status : i \in 1 .. 3} = {"completed", "error", "pending"}
    /\ \E i \in 1 .. 3 : files[i].status = "error" /\ Unsupported(files[i].name)

----------------------------------------------------------------------------
(* Claims about the Documents page, checked under SpecDocs *)

\* The delete requests sent in this step.
SentDeletes == {q \in deletes' : q.id > deletesIssued}

\* The delete requests that fail in this step.
FailedDeletes == {q \in deletes : q \notin deletes' /\ serverDocs' = serverDocs}

C13_SentOnlyConfirmed ==
    \A q \in SentDeletes :
        /\ lastPrompt' = Some([doc |-> q.doc, ok |-> TRUE])
        /\ q.doc \in documents

C13_DeclineChangesNothing ==
    lastPrompt' # lastPrompt /\ ~Val(lastPrompt').ok =>
        /\ SentDeletes = {}
        /\ UNCHANGED <<deletes, documents, docLoading, listings, listingsIssued>>

C13_FailureShownNotRefreshed ==
    /\ \A q \in FailedDeletes :
           /\ docAlerts' = docAlerts + 1
           /\ UNCHANGED <<documents, docLoading, listings, listingsIssued>>
    /\ docAlerts' # docAlerts => FailedDeletes # {}

\* C13: a delete request for a document is sent only after the user has
\* confirmed the prompt for that document; when the user declines, no
\* request is sent and the displayed list is unchanged; when the request
\* fails, an error is shown and the list is not refreshed.
C13_DeleteOnlyConfirmed ==
    [][C13_SentOnlyConfirmed /\ C13_DeclineChangesNothing
         /\ C13_FailureShownNotRefreshed]_vars

\* A confirmed deletion has failed with an error shown, and the user then
\* declined the next prompt: both documents are still listed and held.
C13_Witness ==
    /\ lastPrompt = Some([doc |-> 1, ok |-> FALSE])
    /\ deletesIssued = 1 /\ deletes = {} /\ docAlerts = 1
    /\ documents = DocumentIds /\ serverDocs = DocumentIds
    /\ listingsIssued = 1 /\ listings = {}

\* C14: after the delete request for d has succeeded, once every listing
\* request has been answered the displayed list does not contain d; stated
\* for the runs in which no listing request failed.
C14_DeletedExcluded ==
    listings = {} /\ ~listFailed =>
        \A d \in DocumentIds : d \notin serverDocs => d \notin documents

\* C20: whenever no listing request is in flight, the displayed list is the
\* response to a listing request made for the filter now selected; stated
\* for the runs in which no listing request failed.
C20_ListIsForFilter ==
    listings = {} /\ ~listFailed => shownFor = Some(getDocuments(filter))

----------------------------------------------------------------------------
(* Claims about one citation's card and panel, checked under SpecCitation *)

Rendered(view) == view.status = "ok"

\* C15: for every combination of a citation's optional fields the card and
\* the detail panel render without error, show a timestamp range only when
\* start_time and end_time are both present, and show a page only when page
\* is present.
C15_RendersEveryCombination ==
    /\ Rendered(card)
    /\ card.time # None => Present(shown, "start_time") /\ Present(shown, "end_time")
    /\ card.page # None => Present(shown, "page")
    /\ panel # Closed =>
        /\ Rendered(panel)
        /\ panel.time # None =>
               Present(shown, "start_time") /\ Present(shown, "end_time")
        /\ panel.page # None => Present(shown, "page")

----------------------------------------------------------------------------
(* Claims about the search pages, checked under SpecPages *)

\* While the form is loading, an answer to its request is still to come.
C16_AnswerToCome ==
    loading => \E r \in inflight : r.live /\ ~r.hung

\* After the failure of the form's request the form is not loading, the
\* question is as it was, and it passes the blank check of handleSubmit.
C16_Retryable ==
    \A r \in inflight :
        r.live /\ alerts' = alerts + 1 /\ (\A r2 \in inflight' : r2.id # r.id)
            => /\ ~loading'
               /\ query' = query
               /\ trim(query') # <<>>

\* C16: no query blocks indefinitely: a submitted query leaves the loading
\* state, with a displayed result or with a retryable error. The first part
\* is stated as what it needs in every state: while the form is loading,
\* the event that ends the loading is still to come.
C16_NoQueryBlocks == [](C16_AnswerToCome) /\ [][C16_Retryable]_vars

\* C17: the answer text and the citations list shown together come from one
\* and the same query response, also when requests overlap.
C17_OneResponseShown ==
    results # None =>
        \E d \in Responses :
            /\ results = Some(d)
            /\ FormShown => rendered = ResultsDisplay(Some(d))

\* Two requests overlapped, and the response to the first, arriving last, is
\* the one on display, with its own citation.
C17_Witness ==
    /\ issued = 2 /\ delivered = 2 /\ resultsFrom = 1
    /\ Shown
    /\ Answer = <<"x", "[", "1", "]">>
    /\ Len(rendered.cards) = 1

\* C19: after a change of the document selection or of the advanced
\* filters, the results on display come from a query submitted after that
\* change.
C19_NoResultsFromBeforeChange ==
    results # None => resultsFrom > filterChangedAt

(***************************************************************************)
(* Upload queue: classification, removal, single upload, completion        *)
(***************************************************************************)

\* The extension of a file name: the part after its last dot, lower-cased;
\* None for a name without a dot.
Extension(name) ==
    LET dots == {i \in 1 .. Len(name) : name[i] = "."}
    IN  IF dots = {} THEN None
        ELSE Some(toLowerCase(
                 SubSeq(name, (CHOOSE i \in dots : \A j \in dots : j <= i) + 1,
                        Len(name))))

\* The class of a file name by its extension.
ClassOf(name) ==
    LET ext == Extension(name)
    IN  IF ext = None THEN "unknown"
        ELSE IF Val(ext) \in DocumentExts THEN "document"
        ELSE IF Val(ext) \in ImageExts THEN "image"
        ELSE IF Val(ext) \in AudioExts THEN "audio"
        ELSE "unknown"

\* The endpoint of the upload operation of a class.
EndpointOf(class) ==
    IF class = "document" THEN "/upload/document"
    ELSE IF class = "image" THEN "/upload/image"
    ELSE "/upload/audio"

\* C23: a queued file is classified by the lower-cased extension after the
\* last dot of its name (a name with no extension is unknown), and every
\* upload request is posted to the endpoint of the class of its file, never
\* for a file of class unknown.
C23_ClassifiedByExtension ==
    /\ \A i \in 1 .. Len(files) : files[i].type = ClassOf(files[i].name)
    /\ \A k \in 1 .. Len(posts) :
           /\ ClassOf(posts[k].name) # "unknown"
           /\ posts[k].endpoint = EndpointOf(ClassOf(posts[k].name))

\* The requests posted in this step.
NewPosts == {posts'[k] : k \in (Len(posts) + 1) .. Len(posts')}

\* C24: no upload request is sent for a file that is no longer in the queue
\* of the mounted UploadManager when its upload starts.
C24_RemovedNeverUploaded ==
    [][\A p \in NewPosts :
           (\E b \in batches' : b.live /\ b.cur.id = p.id)
               => Listed(files', p.id)]_vars

\* At most one upload request was sent for each queued file.
C25_OneRequestPerFile ==
    \A j, k \in 1 .. Len(posts) : posts[j].id = posts[k].id => j = k

\* At most one queued file is in status uploading.
C25_OneUploading ==
    \A i, j \in 1 .. Len(files) :
        files[i].status = "uploading" /\ files[j].status = "uploading" => i = j

\* No request is sent for a file that is in status error.
C25_ErrorNotRetried ==
    \A p \in NewPosts :
        Listed(files, p.id) => StatusOf(files, p.id) # "error"

\* C25: at most one upload request is sent per queued file, at most one file
\* is in status uploading at any time, and a file in status error is not
\* retried.
C25_UploadedAtMostOnce ==
    /\ [](C25_OneRequestPerFile /\ C25_OneUploading)
    /\ [][C25_ErrorNotRetried]_vars

\* The upload of the first file failed; the second file was added and
\* Upload All pressed again: only the second file is uploaded.
C25_Witness ==
    /\ Len(files) = 2
    /\ files[1].status = "error" /\ ~Unsupported(files[1].name)
    /\ files[2].status = "uploading"
    /\ Len(posts) = 2 /\ posts[1].id = files[1].id /\ posts[2].id = files[2].id
    /\ \E b \in batches : b.live /\ Len(b.all) = 1 /\ b.all[1].id = files[2].id

\* The ids of the files onUploadComplete was called for.
Completed(cs) == {cs[k].id : k \in 1 .. Len(cs)}

\* The request the batch b awaits is settled in this step.
Settled(b) ==
    /\ b \in batches
    /\ \A b2 \in batches' : b2.cur.id # b.cur.id

\* onUploadComplete was called at most once per file, only for a file whose
\* request was sent; a queued file is completed exactly when it was called
\* for it, so never for a file in status error.
C26_OncePerCompletedFile ==
    /\ \A j, k \in 1 .. Len(completions) :
           completions[j].id = completions[k].id => j = k
    /\ \A k \in 1 .. Len(completions) :
           \E j \in 1 .. Len(posts) : posts[j].id = completions[k].id
    /\ \A i \in 1 .. Len(files) :
           /\ files[i].status = "completed" <=> files[i].id \in Completed(completions)
           /\ files[i].status = "error" => files[i].id \notin Completed(completions)

\* onUploadComplete is called only in the step that settles a file's
\* request, for that file, once; when the request failed (the file is marked
\* error) it is not called.
C26_RightAfterCompletion ==
    /\ completions' # completions =>
           \E b \in batches :
               /\ Settled(b)
               /\ completions' = Append(completions,
                                        [id |-> b.cur.id, name |-> b.cur.name])
    /\ \A b \in batches :
           Settled(b) /\ b.live /\ upHost = "Home" /\ Listed(files, b.cur.id) =>
               IF completions' = completions
               THEN StatusOf(files', b.cur.id) = "error"
               ELSE StatusOf(files', b.cur.id) = "completed"

\* On the Documents page, where the first successful upload closes the
\* upload view, the batch still uploads every file it started with.
C26_BatchRunsToEnd ==
    \A b \in batches :
        Ends(b) /\ upHost = "Documents" =>
            \A k \in 1 .. Len(b.all) : Attempted(b.all[k], posts')

\* C26: onUploadComplete is invoked exactly once for each file whose upload
\* succeeded, right after that file completes, and never for a file whose
\* upload failed; on the Documents page, where the first such call closes
\* the upload view, the files of the batch still pending at that moment are
\* nevertheless uploaded to the end.
C26_CallbackPerSuccess ==
    /\ []C26_OncePerCompletedFile
    /\ [][C26_RightAfterCompletion /\ C26_BatchRunsToEnd]_vars

\* On the Documents page a batch of two files has ended after the upload
\* view was closed by the first success: both were uploaded and the callback
\* ran once for each.
C26_Witness ==
    /\ upHost = "Documents" /\ ~upMounted
    /\ batches = {}
    /\ Len(posts) = 2
    /\ Len(completions) = 2
    /\ completions[1].id = posts[1].id /\ completions[2].id = posts[2].id

(***************************************************************************)
(* Documents page: the loading flag                                        *)
(***************************************************************************)

\* C29: the loading flag of the Documents page is never false while a
\* listing request issued by fetchDocuments is unanswered, and it is false
\* once all of them have been answered or have failed.
C29_LoadingWhileListing ==
    /\ listings # {} => docLoading
    /\ listings = {} => ~docLoading

(***************************************************************************)
(* Results view: the citation of the open panel                            *)
(***************************************************************************)

\* C28: when the citation panel is open, its citation is an element of the
\* citations list of the response currently displayed, also after a new
\* response has replaced the results while the panel was open.
C28_PanelCitationDisplayed ==
    IsSome(selectedCitation) =>
        /\ HasList
        /\ includes(CitationList, Val(selectedCitation))

(***************************************************************************)
(* Documents page: the chunk viewer shows the chunks of its document       *)
(***************************************************************************)

\* The chunks the page holds are the response to the chunk request for the
\* document it holds.
C21_ChunksOfSelectedDoc ==
    showChunks =>
        /\ IsSome(selectedDoc)
        /\ docChunks = getDocumentChunks(Val(selectedDoc))

\* The open viewer displays that document and those chunks.
C21_ViewerDisplaysThem ==
    showChunks =>
        viewer = [status |-> "ok", document |-> selectedDoc, chunks |-> docChunks]

\* A failed chunk request changes neither the document, nor the chunks, nor
\* whether the viewer is open.
C21_FailureChangesNothing ==
    chunkAlerts' # chunkAlerts =>
        UNCHANGED <<selectedDoc, docChunks, showChunks, viewer>>

\* C21: in every state in which the chunk viewer is open, the chunks it
\* displays are the response to the chunk-listing request for the document
\* it displays, for any sequence of View Chunks clicks and any order of
\* responses; a failed chunk request leaves the viewer's document, chunks
\* and open/closed state unchanged.
C21_ViewerShowsChunksOfItsDocument ==
    /\ [](C21_ChunksOfSelectedDoc /\ C21_ViewerDisplaysThem)
    /\ [][C21_FailureChangesNothing]_vars

(***************************************************************************)
(* Find Similar and Image Search                                           *)
(***************************************************************************)

\* The extensions each mode supports.
SupportedExts(mode) ==
    IF mode = "similarity"
    THEN { <<"p", "d", "f">>, <<"d", "o", "c", "x">>, <<"d", "o", "c">>,
           <<"t", "x", "t">> }
    ELSE { <<"j", "p", "g">>, <<"j", "p", "e", "g">>, <<"p", "n", "g">>,
           <<"g", "i", "f">>, <<"b", "m", "p">> }

\* The file name has an extension of the mode's list, whatever its case.
SupportedBy(mode, name) ==
    /\ Extension(name) # None
    /\ Val(Extension(name)) \in SupportedExts(mode)

\* A file is picked or dropped in this step.
Picks == simSelections'.count # simSelections.count

\* A picked file of an unsupported type is refused with a message; the
\* selected file, the preview and the results stay and no request is sent.
C22_UnsupportedRefused ==
    Picks /\ ~SupportedBy(searchMode, Val(simSelections'.last)) =>
        /\ simMessages'.invalid = simMessages.invalid + 1
        /\ UNCHANGED <<simFile, simPreview, simResults, simRequests, simIssued,
                       simLoading>>

\* No request is sent in a step that starts with no file selected.
C22_NoFileNoRequest ==
    simFile = None => simIssued' = simIssued

\* C22: in Find Similar and Image Search a picked or dropped file whose
\* extension is not in the mode's list (compared case-insensitively) is
\* rejected with a message and changes nothing: selected file, preview and
\* results stay as they were and no request is sent; Find Similar pressed
\* with no file selected sends no request either.
C22_UnsupportedChangesNothing ==
    [][C22_UnsupportedRefused /\ C22_NoFileNoRequest]_vars

\* A file of an unsupported type was refused while a document was selected
\* and its results were shown: both are still there.
C22_Witness ==
    /\ searchMode = "similarity"
    /\ simSelections.last = Some(<<"b", ".", "p", "n", "g">>)
    /\ simMessages.invalid = 1
    /\ simFile = Some(<<"a", ".", "P", "D", "F">>)
    /\ simResults = Some([request |-> 1, file |-> <<"a", ".", "P", "D", "F">>])

\* C27: whenever results are shown in Find Similar or Image Search, they
\* are the response to a request that was sent for the file currently
\* selected.
C27_ResultsOfSelectedFile ==
    simResults # None =>
        /\ simFile # None
        /\ Val(simResults).file = Val(simFile)

====
